---- MODULE Spec2Model ----
(***************************************************************************)
(* RestaurantController.aiSearch and RestaurantController.aiImageSearch    *)
(* (src/src/restaurant/restaurant.controller.ts): the projection of the    *)
(* catalog into flat records, the reconciliation of the engine's matches   *)
(* with the catalog, and the life of the staged image file.                *)
(*                                                                         *)
(* Text (a JavaScript string) is a sequence of one-character strings, so   *)
(* that toString, parseInt and the template literals are computed          *)
(* character by character.                                                 *)
(***************************************************************************)
EXTENDS Integers, Sequences, FiniteSets, TLC

\* Longest result list an engine response carries.
MaxMatches == 2
\* Last value of the millisecond clock.
MaxClock == 2
\* Requests served at the same time in SpecConcurrent.
NumRequests == 2

----------------------------------------------------------------------------
(* Text *)

DigitChars == <<"0", "1", "2", "3", "4", "5", "6", "7", "8", "9">>

IsDigit(c) == \E i \in 1..10 : DigitChars[i] = c

DigitVal(c) == (CHOOSE i \in 1..10 : DigitChars[i] = c) - 1

\* Number.prototype.toString() of an integer: decimal, a minus sign first.
RECURSIVE NatToString(_)
NatToString(n) ==
    IF n < 10 THEN <<DigitChars[n + 1]>>
    ELSE NatToString(n \div 10) \o <<DigitChars[(n % 10) + 1]>>

NumberToString(n) == IF n < 0 THEN <<"-">> \o NatToString(0 - n) ELSE NatToString(n)

\* The characters parseInt skips at the start of a text: WhiteSpace and
\* LineTerminator of ECMAScript. A character TLA+ has no escape for is written
\* as its code point.
WhiteSpaceChars ==
    {" ", "\t", "\n", "\r", "\f", "U+000B", "U+00A0", "U+FEFF", "U+2028", "U+2029",
     "U+1680", "U+2000", "U+2001", "U+2002", "U+2003", "U+2004", "U+2005",
     "U+2006", "U+2007", "U+2008", "U+2009", "U+200A", "U+202F", "U+205F",
     "U+3000"}

RECURSIVE SkipWhiteSpace(_)
SkipWhiteSpace(s) ==
    IF s # <<>> /\ Head(s) \in WhiteSpaceChars THEN SkipWhiteSpace(Tail(s)) ELSE s

HexLower == <<"a", "b", "c", "d", "e", "f">>

HexUpper == <<"A", "B", "C", "D", "E", "F">>

\* Whether c is a digit of the radix (10 or 16).
IsRadixDigit(c, radix) ==
    \/ IsDigit(c)
    \/ radix = 16 /\ \E i \in 1..6 : HexLower[i] = c \/ HexUpper[i] = c

RadixDigitVal(c) ==
    IF IsDigit(c) THEN DigitVal(c)
    ELSE 9 + (CHOOSE i \in 1..6 : HexLower[i] = c \/ HexUpper[i] = c)

RECURSIVE ParseDigits(_, _, _, _)
ParseDigits(s, radix, acc, seen) ==
    IF s # <<>> /\ IsRadixDigit(Head(s), radix)
    THEN ParseDigits(Tail(s), radix, acc * radix + RadixDigitVal(Head(s)), TRUE)
    ELSE [nan |-> ~seen, val |-> acc]

\* A JavaScript number: NaN, or an integer.
Num(n) == [nan |-> FALSE, val |-> n]

\* parseInt(text) without a radix: leading white space is skipped, one sign is
\* read, a "0x" or "0X" prefix makes the radix 16 (10 otherwise), then the
\* longest run of digits of the radix is read; anything after it is ignored.
\* No digit: NaN.
ParseInt(text) ==
    LET s == SkipWhiteSpace(text)
        neg == s # <<>> /\ Head(s) = "-"
        body == IF s # <<>> /\ Head(s) \in {"-", "+"} THEN Tail(s) ELSE s
        hex == Len(body) >= 2 /\ body[1] = "0" /\ body[2] \in {"x", "X"}
        p == IF hex THEN ParseDigits(Tail(Tail(body)), 16, 0, FALSE)
             ELSE ParseDigits(body, 10, 0, FALSE)
    IN  IF p.nan THEN [nan |-> TRUE, val |-> 0]
        ELSE Num(IF neg THEN 0 - p.val ELSE p.val)

----------------------------------------------------------------------------
(* The catalog projector and the reconciler *)

\* DishRecords with its last dish left out.
DishRecords_DropLast(r) ==
    [i \in 1..(Len(r.dishes) - 1) |->
        [restaurant_id   |-> NumberToString(r.id),
         restaurant_name |-> r.name,
         dish_name       |-> r.dishes[i].name,
         dish_price      |-> r.dishes[i].price]]

\* r.dishes.map((d) => ({restaurant_id: r.id.toString(), ...}))
DishRecords(r) ==
    [i \in 1..Len(r.dishes) |->
        [restaurant_id   |-> NumberToString(r.id),
         restaurant_name |-> r.name,
         dish_name       |-> r.dishes[i].name,
         dish_price      |-> r.dishes[i].price]]

\* restaurants.flatMap((r) => r.dishes.map(...))
RECURSIVE DishList(_)
DishList(restaurants) ==
    IF restaurants = <<>> THEN <<>>
    ELSE DishRecords(Head(restaurants)) \o DishList(Tail(restaurants))

\* new Set(results.map((r) => parseInt(r.restaurant_id)))
MatchedRestaurantIds(results) ==
    {ParseInt(results[i].restaurant_id) : i \in 1..Len(results)}

\* `${r.restaurant_id}-${r.dish_name}`
MatchKey(m) == m.restaurant_id \o <<"-">> \o m.dish_name

\* `${r.id}-${d.name}`
DishKey(r, d) == NumberToString(r.id) \o <<"-">> \o d.name

\* new Set(results.map((r) => `${r.restaurant_id}-${r.dish_name}`))
MatchedDishes(results) == {MatchKey(results[i]) : i \in 1..Len(results)}

\* FilteredDishes in the order of the engine's ranking.
RECURSIVE FilteredDishes_EngineOrder(_, _)
FilteredDishes_EngineOrder(r, results) ==
    IF results = <<>> THEN <<>>
    ELSE SelectSeq(r.dishes, LAMBDA d : DishKey(r, d) = MatchKey(Head(results)))
             \o FilteredDishes_EngineOrder(r, Tail(results))

\* r.dishes.filter((d) => matchedDishes.has(`${r.id}-${d.name}`))
FilteredDishes(r, results) ==
    SelectSeq(r.dishes, LAMBDA d : DishKey(r, d) \in MatchedDishes(results))

\* restaurants.filter((r) => matchedRestaurantIds.has(r.id))
RestaurantFilter(restaurants, results) ==
    SelectSeq(restaurants, LAMBDA r : Num(r.id) \in MatchedRestaurantIds(results))

\* .filter(...).map((r) => ({...r, dishes: filteredDishes}))
MatchedRestaurants(restaurants, results) ==
    LET kept == RestaurantFilter(restaurants, results)
    IN  [i \in 1..Len(kept) |-> [kept[i] EXCEPT !.dishes = FilteredDishes(kept[i], results)]]

----------------------------------------------------------------------------
(* What the handlers read: the uploaded file, the catalog, the engine *)

Soup == <<"S", "o", "u", "p">>
Salad == <<"S", "a", "l", "a", "d">>
Bread == <<"B", "r", "e", "a", "d">>
TwoSoup == <<"2", "-">> \o Soup

Dish(name, price) == [name |-> name, price |-> price]

Restaurant(id, name, dishes) == [id |-> id, name |-> name, dishes |-> dishes]

\* Listings restaurantService.findAll() can return: restaurants with their
\* dishes, identities unique within a listing, in the order of the store.
CatalogAB == <<Restaurant(1, <<"A">>, <<Dish(Soup, 5), Dish(Salad, 4)>>),
               Restaurant(2, <<"B">>, <<Dish(Soup, 6)>>)>>

CatalogBAC == <<Restaurant(2, <<"B">>, <<Dish(Soup, 6)>>),
                Restaurant(1, <<"A">>, <<Dish(Soup, 5), Dish(Salad, 4), Dish(Bread, 3)>>),
                Restaurant(3, <<"C">>, <<>>)>>

CatalogDash == <<Restaurant(1, <<"A">>, <<Dish(TwoSoup, 7), Dish(Soup, 5)>>)>>

CatalogTwelve == <<Restaurant(12, <<"L">>, <<Dish(Soup, 5)>>)>>

Catalogs == {<<>>, CatalogAB, CatalogBAC, CatalogDash, CatalogTwelve}

SmallCatalogs == {CatalogAB}

\* Express.Multer.File: absent, or a buffer with its original name.
NoFile == [present |-> FALSE, originalname |-> <<>>]

Upload(name) == [present |-> TRUE, originalname |-> name]

Files == {NoFile, Upload(<<"a">>), Upload(<<"b">>)}

\* One element of aiResponse.data.results.
Match(rid, dish) == [restaurant_id |-> rid, dish_name |-> dish]

Matches ==
    {Match(<<"1">>, Soup), Match(<<"1">>, Salad), Match(<<"1">>, Bread),
     Match(<<"2">>, Soup), Match(<<"3">>, Soup), Match(<<"1", "-", "2">>, Soup),
     Match(<<"\t", "0", "x", "1">>, Soup), Match(<<"x">>, Soup)}

SeqsUpTo(S, n) == UNION {[1..k -> S] : k \in 0..n}

\* What engine.search() resolves to: a status, and data (with its results) or none.
Response(status, hasData, results) ==
    [status |-> status, hasData |-> hasData, results |-> results]

NoResponse == Response("none", FALSE, <<>>)

Responses ==
    {Response("success", TRUE, res) : res \in SeqsUpTo(Matches, MaxMatches)}
    \cup {Response("error", TRUE, res) : res \in SeqsUpTo({Match(<<"1">>, Soup)}, 1)}
    \cup {Response("success", FALSE, <<>>), Response("error", FALSE, <<>>)}

SmallResponses ==
    {Response("success", TRUE, <<Match(<<"1">>, Soup)>>), Response("error", FALSE, <<>>)}

----------------------------------------------------------------------------
(* How a handler ends *)

NoOutcome == [tag |-> "none", value |-> <<>>, error |-> "none"]

Return(list) == [tag |-> "return", value |-> list, error |-> "none"]

Throw(error) == [tag |-> "throw", value |-> <<>>, error |-> error]

\* plainToInstance(RestaurantResponseDto, matchedRestaurants): one instance per
\* element, in the order of the array, every property copied (the conversion
\* without options, for a class that declares no transformation).
PlainToInstance(list) == [i \in 1..Len(list) |-> list[i]]

\* if (aiResponse.status !== 'success' || !aiResponse.data) return []; ... return
Reconcile(restaurants, aiResponse) ==
    IF aiResponse.status # "success" \/ ~aiResponse.hasData
    THEN Return(<<>>)
    ELSE Return(PlainToInstance(MatchedRestaurants(restaurants, aiResponse.results)))

\* `temp_${Date.now()}_${file.originalname}`
TempPath(clock, file) ==
    <<"t", "e", "m", "p", "_">> \o NumberToString(clock) \o <<"_">> \o file.originalname

\* What a file holds: the buffer of a request, whole, or what was left of it
\* by a write that failed after the file was opened (created or truncated).
Content(writer, whole) == [writer |-> writer, whole |-> whole]

\* What the file system does to fs.writeFileSync: nothing, an error when the
\* file is opened, or an error when the bytes are written to the opened file.
WriteFaults == {"none", "open", "write"}

\* What the file system does to the finally block: nothing, an error of the
\* stat behind fs.existsSync (which then answers false), or an error of
\* fs.unlinkSync.
CleanupFaults == {"none", "stat", "unlink"}

\* fs.writeFileSync(path, buffer): the file at path now holds the writer's bytes.
WriteFile(files, path, content) ==
    [p \in DOMAIN files \cup {path} |-> IF p = path THEN content ELSE files[p]]

\* fs.existsSync(path): false when the file is not there, and when it cannot
\* be examined.
ExistsSync(files, path, fault) == path \in DOMAIN files /\ fault # "stat"

\* fs.unlinkSync(path)
Unlink(files, path) == [p \in DOMAIN files \ {path} |-> files[p]]

\* Cleanup as the last statement of the try block instead of a finally block.
Cleanup_NotOnThrow(files, path, primary, fault) ==
    IF primary.tag # "throw" /\ ExistsSync(files, path, fault)
    THEN IF fault = "unlink"
         THEN [fs |-> files, outcome |-> Throw("UnlinkError")]
         ELSE [fs |-> Unlink(files, path), outcome |-> primary]
    ELSE [fs |-> files, outcome |-> primary]

\* finally { if (fs.existsSync(tempPath)) fs.unlinkSync(tempPath) }: an error
\* raised inside the finally block replaces the completion of the try block.
Cleanup(files, path, primary, fault) ==
    IF ExistsSync(files, path, fault)
    THEN IF fault = "unlink"
         THEN [fs |-> files, outcome |-> Throw("UnlinkError")]
         ELSE [fs |-> Unlink(files, path), outcome |-> primary]
    ELSE [fs |-> files, outcome |-> primary]

----------------------------------------------------------------------------
(* The requests *)

VARIABLES
    req,    \* the requests: each one's handler, position and locals
    fs,     \* the files of the working directory: path -> what the file holds
    now     \* Date.now()

vars == <<req, fs, now>>

\* A request no handler has been entered for.
Idle ==
    [handler      |-> "none",
     pc           |-> "idle",
     file         |-> NoFile,
     restaurants  |-> <<>>,
     injected     |-> FALSE,      \* engine['restaurantData'] has been set
     dishList     |-> <<>>,
     tempPath     |-> <<>>,
     staged       |-> FALSE,      \* writeFileSync(tempPath, ...) has returned
     cleanupFault |-> "none",     \* what the file system did to the finally block
     aiResponse   |-> NoResponse,
     primary      |-> NoOutcome,  \* how the handler's body (the try block) ended
     outcome      |-> NoOutcome,  \* what the caller receives
     findAllCalls |-> 0,
     searchCalls  |-> 0]

Init ==
    /\ req = [r \in {1} |-> Idle]
    /\ fs = <<>>
    /\ now = 1

InitConcurrent ==
    /\ req = [r \in 1..NumRequests |-> Idle]
    /\ fs = <<>>
    /\ now = 1

\* The handler ends: its promise settles with the outcome.
Finish(r, primary, outcome) ==
    [r EXCEPT !.pc = "done", !.primary = primary, !.outcome = outcome]

\* aiSearch is entered: new SupraSearchEngine(), then the await of findAll().
AiSearchStart(r) ==
    /\ req[r].pc = "idle"
    /\ req' = [req EXCEPT ![r] = [@ EXCEPT !.handler = "aiSearch",
                                           !.pc = "findAll",
                                           !.findAllCalls = @ + 1]]
    /\ UNCHANGED <<fs, now>>

\* findAll() rejects: aiSearch has no handler for it.
AiSearchFindAllThrows(r) ==
    /\ req[r].handler = "aiSearch"
    /\ req[r].pc = "findAll"
    /\ req' = [req EXCEPT ![r] = Finish(@, Throw("PersistenceError"),
                                          Throw("PersistenceError"))]
    /\ UNCHANGED <<fs, now>>

\* findAll() resolves: the projection, the injection, the call of engine.search.
AiSearchFindAllReturns(r, restaurants) ==
    /\ req[r].handler = "aiSearch"
    /\ req[r].pc = "findAll"
    /\ req' = [req EXCEPT ![r] = [@ EXCEPT !.restaurants = restaurants,
                                           !.dishList = DishList(restaurants),
                                           !.injected = TRUE,
                                           !.pc = "search",
                                           !.searchCalls = @ + 1]]
    /\ UNCHANGED <<fs, now>>

\* engine.search() rejects.
AiSearchEngineThrows(r) ==
    /\ req[r].handler = "aiSearch"
    /\ req[r].pc = "search"
    /\ req' = [req EXCEPT ![r] = Finish(@, Throw("EngineError"), Throw("EngineError"))]
    /\ UNCHANGED <<fs, now>>

\* engine.search() resolves: the reconciliation.
AiSearchEngineReturns(r, aiResponse) ==
    /\ req[r].handler = "aiSearch"
    /\ req[r].pc = "search"
    /\ LET result == Reconcile(req[r].restaurants, aiResponse)
       IN  req' = [req EXCEPT ![r] = Finish([@ EXCEPT !.aiResponse = aiResponse],
                                              result, result)]
    /\ UNCHANGED <<fs, now>>

\* AiImageSearchStart without the check of the file.
AiImageSearchStart_NoCheck(r, file) ==
    /\ req[r].pc = "idle"
    /\ req' = [req EXCEPT ![r] = [@ EXCEPT !.handler = "aiImageSearch",
                                           !.file = file,
                                           !.pc = "findAll",
                                           !.findAllCalls = @ + 1]]
    /\ UNCHANGED <<fs, now>>

\* aiImageSearch is entered: the check of the file, then the await of findAll().
AiImageSearchStart(r, file) ==
    /\ req[r].pc = "idle"
    /\ IF ~file.present
       THEN req' = [req EXCEPT ![r] = Finish([@ EXCEPT !.handler = "aiImageSearch",
                                                       !.file = file],
                                               Throw("BadRequestException"),
                                               Throw("BadRequestException"))]
       ELSE req' = [req EXCEPT ![r] = [@ EXCEPT !.handler = "aiImageSearch",
                                                !.file = file,
                                                !.pc = "findAll",
                                                !.findAllCalls = @ + 1]]
    /\ UNCHANGED <<fs, now>>

AiImageSearchFindAllThrows(r) ==
    /\ req[r].handler = "aiImageSearch"
    /\ req[r].pc = "findAll"
    /\ req' = [req EXCEPT ![r] = Finish(@, Throw("PersistenceError"),
                                          Throw("PersistenceError"))]
    /\ UNCHANGED <<fs, now>>

\* findAll() resolves: the projection, the injection, the staging of the file
\* (outside the try block) and the call of engine.search. The other arguments
\* of the call (body.text || '', body.preferences || '', body.limit || 10) are
\* read by the engine alone, whose answer is any of the responses. A write
\* that fails ends the request outside the try block: no finally block runs,
\* and a file that was opened before the failure stays.
AiImageSearchFindAllReturns(r, restaurants, writeFault) ==
    /\ req[r].handler = "aiImageSearch"
    /\ req[r].pc = "findAll"
    /\ LET tempPath == TempPath(now, req[r].file)
           loaded == [req[r] EXCEPT !.restaurants = restaurants,
                                    !.dishList = DishList(restaurants),
                                    !.injected = TRUE,
                                    !.tempPath = tempPath]
       IN  IF writeFault # "none"
           THEN /\ req' = [req EXCEPT ![r] = Finish(loaded, Throw("WriteError"),
                                                      Throw("WriteError"))]
                /\ fs' = IF writeFault = "write"
                         THEN WriteFile(fs, tempPath, Content(r, FALSE))
                         ELSE fs
           ELSE /\ req' = [req EXCEPT ![r] = [loaded EXCEPT !.staged = TRUE,
                                                            !.pc = "search",
                                                            !.searchCalls = @ + 1]]
                /\ fs' = WriteFile(fs, tempPath, Content(r, TRUE))
    /\ UNCHANGED now

\* engine.search() rejects inside the try block: the finally block runs.
AiImageSearchEngineThrows(r, fault) ==
    /\ req[r].handler = "aiImageSearch"
    /\ req[r].pc = "search"
    /\ LET primary == Throw("EngineError")
           end == Cleanup(fs, req[r].tempPath, primary, fault)
       IN  /\ req' = [req EXCEPT ![r] = Finish([@ EXCEPT !.cleanupFault = fault],
                                                 primary, end.outcome)]
           /\ fs' = end.fs
    /\ UNCHANGED now

\* engine.search() resolves inside the try block: the reconciliation, then the
\* finally block.
AiImageSearchEngineReturns(r, aiResponse, fault) ==
    /\ req[r].handler = "aiImageSearch"
    /\ req[r].pc = "search"
    /\ LET primary == Reconcile(req[r].restaurants, aiResponse)
           end == Cleanup(fs, req[r].tempPath, primary, fault)
       IN  /\ req' = [req EXCEPT ![r] = Finish([@ EXCEPT !.aiResponse = aiResponse,
                                                          !.cleanupFault = fault],
                                                 primary, end.outcome)]
           /\ fs' = end.fs
    /\ UNCHANGED now

\* A millisecond passes.
Tick ==
    /\ now < MaxClock
    /\ now' = now + 1
    /\ UNCHANGED <<req, fs>>

\* One request of either kind, any listing, any response.
Next ==
    \/ \E r \in DOMAIN req : AiSearchStart(r)
    \/ \E r \in DOMAIN req : AiSearchFindAllThrows(r)
    \/ \E r \in DOMAIN req, c \in Catalogs : AiSearchFindAllReturns(r, c)
    \/ \E r \in DOMAIN req : AiSearchEngineThrows(r)
    \/ \E r \in DOMAIN req, a \in Responses : AiSearchEngineReturns(r, a)
    \/ \E r \in DOMAIN req, f \in Files : AiImageSearchStart(r, f)
    \/ \E r \in DOMAIN req : AiImageSearchFindAllThrows(r)
    \/ \E r \in DOMAIN req, c \in Catalogs, w \in WriteFaults :
           AiImageSearchFindAllReturns(r, c, w)
    \/ \E r \in DOMAIN req, u \in CleanupFaults : AiImageSearchEngineThrows(r, u)
    \/ \E r \in DOMAIN req, a \in Responses, u \in CleanupFaults :
           AiImageSearchEngineReturns(r, a, u)
    \/ Tick

Spec == Init /\ [][Next]_vars

\* Image searches served at the same time, on one listing and few responses.
NextConcurrent ==
    \/ \E r \in DOMAIN req, f \in Files : AiImageSearchStart(r, f)
    \/ \E r \in DOMAIN req : AiImageSearchFindAllThrows(r)
    \/ \E r \in DOMAIN req, c \in SmallCatalogs, w \in WriteFaults :
           AiImageSearchFindAllReturns(r, c, w)
    \/ \E r \in DOMAIN req, u \in CleanupFaults : AiImageSearchEngineThrows(r, u)
    \/ \E r \in DOMAIN req, a \in SmallResponses, u \in CleanupFaults :
           AiImageSearchEngineReturns(r, a, u)
    \/ Tick

SpecConcurrent == InitConcurrent /\ [][NextConcurrent]_vars

----------------------------------------------------------------------------
(* The claims *)

\* The request has ended with a result list computed from a successful response.
Reconciled(r) ==
    /\ req[r].pc = "done"
    /\ req[r].outcome.tag = "return"
    /\ req[r].aiResponse.status = "success"
    /\ req[r].aiResponse.hasData

\* Some match names restaurant x (as parseInt reads it) with this dish name.
MatchedPair(results, x, name) ==
    \E k \in 1..Len(results) :
        /\ ParseInt(results[k].restaurant_id) = Num(x.id)
        /\ results[k].dish_name = name

\* C1: whatever the engine answers with status 'success', every returned
\* restaurant is named by some match, and every returned dish has its (owning
\* restaurant, dish name) pair among the matches.
C1_OnlyMatchedReturned ==
    \A r \in DOMAIN req :
        Reconciled(r) =>
            LET results == req[r].aiResponse.results
                value == req[r].outcome.value
            IN  \A i \in 1..Len(value) :
                    /\ \E k \in 1..Len(results) :
                           ParseInt(results[k].restaurant_id) = Num(value[i].id)
                    /\ \A j \in 1..Len(value[i].dishes) :
                           MatchedPair(results, value[i], value[i].dishes[j].name)

\* C2 as stated: when an image search that staged its file ends, the file is
\* gone from its location, however the search ends.
C2_StagedFileGoneAtEnd ==
    [][\A r \in DOMAIN req :
          (req[r].pc # "done" /\ req'[r].pc = "done" /\ req'[r].staged)
              => req'[r].tempPath \notin DOMAIN fs']_vars

\* C2 amended: when an image search that staged its file ends, the file is gone
\* from its location on every exit path (matches, no match, engine error) on
\* which the file system failed neither fs.existsSync nor fs.unlinkSync.
C2_StagedFileGoneUnlessCleanupFaults ==
    [][\A r \in DOMAIN req :
          (/\ req[r].pc # "done"
           /\ req'[r].pc = "done"
           /\ req'[r].staged
           /\ req'[r].cleanupFault = "none")
              => req'[r].tempPath \notin DOMAIN fs']_vars

\* An image search whose engine call raised has ended, and its file is gone.
C2_Witness ==
    \E r \in DOMAIN req :
        /\ req[r].pc = "done"
        /\ req[r].staged
        /\ req[r].cleanupFault = "none"
        /\ req[r].outcome = Throw("EngineError")
        /\ req[r].tempPath \notin DOMAIN fs

\* C3: in aiImageSearch the caller receives what the try block ended with (the
\* list, the empty list or the engine's error), also when the removal fails.
C3_CleanupNeverReplacesOutcome ==
    \A r \in DOMAIN req :
        (req[r].handler = "aiImageSearch" /\ req[r].pc = "done" /\ req[r].staged)
            => req[r].outcome = req[r].primary

\* The image search r awaits its engine call.
InEngineCall(r) ==
    /\ req[r].handler = "aiImageSearch"
    /\ req[r].pc = "search"

\* C4: two image searches in flight have different staged locations, and each
\* one's file is there, with its own bytes, for the whole of its engine call.
C4_DistinctLocations ==
    /\ \A r1, r2 \in DOMAIN req :
           (r1 # r2 /\ InEngineCall(r1) /\ InEngineCall(r2))
               => req[r1].tempPath # req[r2].tempPath
    /\ \A r \in DOMAIN req :
           InEngineCall(r)
               => /\ req[r].tempPath \in DOMAIN fs
                  /\ fs[req[r].tempPath] = Content(r, TRUE)

\* C5: an image search without a file has ended with the client-input error,
\* having read no listing, called no engine and created no file.
C5_NoFileRejectedFirst ==
    \A r \in DOMAIN req :
        (req[r].handler = "aiImageSearch" /\ ~req[r].file.present)
            => /\ req[r].pc = "done"
               /\ req[r].outcome = Throw("BadRequestException")
               /\ req[r].findAllCalls = 0
               /\ req[r].searchCalls = 0
               /\ ~req[r].injected
               /\ ~req[r].staged
               /\ \A p \in DOMAIN fs : fs[p].writer # r

C5_Witness ==
    \E r \in DOMAIN req :
        /\ req[r].handler = "aiImageSearch"
        /\ ~req[r].file.present
        /\ req[r].outcome = Throw("BadRequestException")

\* C6: a response whose status is not 'success', or that carries no data, ends
\* the request, in both handlers, with the empty list.
C6_NoMatchReturnsEmptyList ==
    \A r \in DOMAIN req :
        (/\ req[r].pc = "done"
         /\ req[r].aiResponse # NoResponse
         /\ (req[r].aiResponse.status # "success" \/ ~req[r].aiResponse.hasData))
            => req[r].outcome = Return(<<>>)

\* C7: when findAll or the engine call raises, the caller receives that error,
\* and neither call was made a second time.
C7_CollaboratorErrorPropagates ==
    \A r \in DOMAIN req :
        (/\ req[r].pc = "done"
         /\ req[r].primary \in {Throw("PersistenceError"), Throw("EngineError")})
            => /\ req[r].outcome = req[r].primary
               /\ req[r].findAllCalls <= 1
               /\ req[r].searchCalls <= 1

RECURSIVE IsSubsequence(_, _)
IsSubsequence(a, b) ==
    IF a = <<>> THEN TRUE
    ELSE IF b = <<>> THEN FALSE
    ELSE IF Head(a) = Head(b) THEN IsSubsequence(Tail(a), Tail(b))
    ELSE IsSubsequence(a, Tail(b))

Ids(list) == [i \in 1..Len(list) |-> list[i].id]

\* C8: the returned restaurants are in the order of the listing, and each one's
\* dishes in the order of its own dish list, whatever the order of the matches.
C8_OrderPreserved ==
    \A r \in DOMAIN req :
        Reconciled(r) =>
            LET value == req[r].outcome.value
                catalog == req[r].restaurants
            IN  /\ IsSubsequence(Ids(value), Ids(catalog))
                /\ \A i \in 1..Len(value) :
                       \E c \in 1..Len(catalog) :
                           /\ catalog[c].id = value[i].id
                           /\ IsSubsequence(value[i].dishes, catalog[c].dishes)

\* Dishes [Soup, Salad, Bread], matched Bread then Soup: [Soup, Bread].
C8_Witness ==
    \E r \in DOMAIN req :
        /\ Reconciled(r)
        /\ req[r].restaurants = CatalogBAC
        /\ req[r].aiResponse.results = <<Match(<<"1">>, Bread), Match(<<"1">>, Soup)>>
        /\ Len(req[r].outcome.value) = 1
        /\ req[r].outcome.value[1].dishes = <<Dish(Soup, 5), Dish(Bread, 3)>>

RECURSIVE DishCount(_)
DishCount(catalog) ==
    IF catalog = <<>> THEN 0 ELSE Len(Head(catalog).dishes) + DishCount(Tail(catalog))

\* C9: the list injected into the engine holds one record per dish, restaurant
\* after restaurant: its length is the sum of the dish counts, and the record
\* of a dish carries the restaurant's identity as decimal text, the names and
\* the price.
C9_OneRecordPerDish ==
    \A r \in DOMAIN req :
        req[r].injected =>
            LET catalog == req[r].restaurants
                records == req[r].dishList
            IN  /\ Len(records) = DishCount(catalog)
                /\ \A i \in 1..Len(catalog) :
                       \A j \in 1..Len(catalog[i].dishes) :
                           LET rec == records[DishCount(SubSeq(catalog, 1, i - 1)) + j]
                           IN  /\ \A k \in 1..Len(rec.restaurant_id) :
                                      IsDigit(rec.restaurant_id[k])
                               /\ ParseInt(rec.restaurant_id) = Num(catalog[i].id)
                               /\ rec.restaurant_name = catalog[i].name
                               /\ rec.dish_name = catalog[i].dishes[j].name
                               /\ rec.dish_price = catalog[i].dishes[j].price

\* A listing with a restaurant without dishes has been projected.
C9_Witness ==
    \E r \in DOMAIN req :
        /\ req[r].injected
        /\ req[r].restaurants = CatalogBAC
        /\ Len(req[r].dishList) = 4

\* C10: every returned restaurant holds at least one dish, so that a restaurant
\* without dishes in the listing is never returned.
C10_ReturnedRestaurantsHoldADish ==
    \A r \in DOMAIN req :
        Reconciled(r) =>
            \A i \in 1..Len(req[r].outcome.value) :
                Len(req[r].outcome.value[i].dishes) >= 1

====
